---- MODULE Spec2Model ----
(***************************************************************************)
(* Model of the volumetric encoder-decoder network builder (UNet in        *)
(* src/src/vq_sce/networks/components/unet.py) and of the vector           *)
(* quantisation layer (VQBlock in .../layer/layers.py and                  *)
(* .../layers/vq_layers.py).                                               *)
(*                                                                         *)
(* Two specifications share the variables:                                 *)
(*   Spec    - construction of a UNet from a configuration, followed by    *)
(*             forward calls, one action per step of UNet.call;            *)
(*   SpecVQ  - construction of one VQBlock and calls of it on numeric      *)
(*             inputs.                                                     *)
(*                                                                         *)
(* Tensors of the network are symbolic: a tensor is its spatial shape, its *)
(* channel count and the expression that computes it, written in prefix    *)
(* form as a sequence of strings.  Numbers of the VQBlock model are        *)
(* integers counted in hundredths (100 stands for 1.0).                    *)
(***************************************************************************)
EXTENDS Integers, Sequences, FiniteSets, TLC

VARIABLES
    cfg,          \* the configuration dict handed to UNet.__init__
    net,          \* the UNet object: its attributes and how construction ended
    pc,           \* position of the object: "new", "built", "failed", or inside call
    x,            \* UNet.call: the local x
    upsampled_x,  \* UNet.call: the local upsampled_x
    skip_layers,  \* UNet.call: the local skip_layers
    trace,        \* UNet.call: which decoder stage received which tensor as skip
    ret,          \* UNet.call: the returned pair, or the exception raised
    vq,           \* the VQBlock object: num_embeddings, embedding_dim, beta, dictionary
    vq_x,         \* VQBlock.call: the input tensor x
    vq_ret,       \* VQBlock.call: the tensor returned by the last call
    losses,       \* VQBlock: the values registered with add_loss, in order
    blk,          \* a convolutional block of layer/layers.py, constructed on its own
    blk_in,       \* the arguments of its constructor and of its call
    blk_ret       \* what its last call returned

vars == <<cfg, net, pc, x, upsampled_x, skip_layers, trace, ret, vq, vq_x, vq_ret, losses,
          blk, blk_in, blk_ret>>

netvars == <<cfg, net, pc, x, upsampled_x, skip_layers, trace, ret>>
vqvars == <<vq, vq_x, vq_ret, losses>>
blkvars == <<blk, blk_in, blk_ret>>

(***************************************************************************)
(* Bounds of the model.                                                    *)
(***************************************************************************)
MaxSlices == 4      \* leading (slice) axis of source_dims / target_dims: 1..MaxSlices
MaxSide == 5        \* height and width of source_dims: 1..MaxSide
MaxLayers == 3      \* config["layers"] ranges over -1..MaxLayers
MaxVQStages == 2    \* number of entries of config["vq_layers"]
MaxEmbeddings == 2  \* embedding counts: 1..MaxEmbeddings

(***************************************************************************)
(* Program constants.                                                      *)
(***************************************************************************)
MAX_CHANNELS == 512

(***************************************************************************)
(* Helpers.                                                                *)
(***************************************************************************)
Min(a, b) == IF a <= b THEN a ELSE b

\* n ** e for the small exponents of the channel schedule
RECURSIVE Pow2(_)
Pow2(e) == IF e <= 0 THEN 1 ELSE 2 * Pow2(e - 1)

\* int(np.log2(n)) for n >= 1
RECURSIVE FloorLog2(_)
FloorLog2(n) == IF n < 2 THEN 0 ELSE 1 + FloorLog2(n \div 2)

\* list.reverse()
ReverseKeep(s) == s
Reverse(s) == [i \in 1..Len(s) |-> s[Len(s) + 1 - i]]

\* f"down_{i}" and f"up_{i}"
DownNames == <<"down_0", "down_1", "down_2", "down_3", "down_4", "down_5", "down_6", "down_7">>
UpNames == <<"up_0", "up_1", "up_2", "up_3", "up_4", "up_5", "up_6", "up_7">>
DownName(i) == DownNames[i + 1]
UpName(i) == UpNames[i + 1]

(***************************************************************************)
(* Layer objects.                                                          *)
(***************************************************************************)
NoVQ == [present |-> FALSE, num_embeddings |-> 0, embedding_dim |-> 0]

\* VQBlock(num_embeddings, embedding_dim, beta): the attributes it stores
VQBlockInit(num_embeddings, embedding_dim) ==
    [present |-> TRUE, num_embeddings |-> num_embeddings, embedding_dim |-> embedding_dim]

NoBlock ==
    [kind |-> "none", name |-> "", nc |-> 0, weights |-> <<0, 0, 0>>, strides |-> <<0, 0, 0>>,
     upsamp_factor |-> 0, use_vq |-> FALSE, vq_time |-> FALSE, vq |-> NoVQ]

\* DownBlock(nc, weights, strides, initialiser, use_vq, vq_config, name), as UNet calls it
DownBlockInit(nc, weights, strides, use_vq, vq_config, name) ==
    [kind |-> "DownBlock", name |-> name, nc |-> nc, weights |-> weights, strides |-> strides,
     upsamp_factor |-> 1, use_vq |-> use_vq, vq_time |-> FALSE,
     vq |-> IF use_vq THEN VQBlockInit(vq_config.embeddings, nc) ELSE NoVQ]

\* UpBlock(nc, weights, strides, upsamp_factor, initialiser, use_vq, vq_config, name),
\* as UNet calls it
UpBlockInit(nc, weights, strides, upsamp_factor, use_vq, vq_config, name) ==
    [kind |-> "UpBlock", name |-> name, nc |-> nc, weights |-> weights, strides |-> strides,
     upsamp_factor |-> upsamp_factor, use_vq |-> use_vq, vq_time |-> FALSE,
     vq |-> IF use_vq THEN VQBlockInit(vq_config.embeddings, nc) ELSE NoVQ]

\* the constructors of layer/layers.py: DownBlock, BottomBlock, UpBlock and UpBlockNoSkip
\* (nc, weights, strides, initialiser, use_vq, vq_config, name); vq_time is False unless
\* the block has a quantiser, and then it is vq_config["vq_time"]
LayersDownBlockInit(nc, weights, strides, use_vq, vq_config, name) ==
    [kind |-> "DownBlock", name |-> name, nc |-> nc, weights |-> weights, strides |-> strides,
     upsamp_factor |-> 1, use_vq |-> use_vq,
     vq_time |-> IF use_vq THEN vq_config.vq_time ELSE FALSE,
     vq |-> IF use_vq THEN VQBlockInit(vq_config.embeddings, nc) ELSE NoVQ]
LayersBottomBlockInit(nc, weights, strides, use_vq, vq_config, name) ==
    [kind |-> "BottomBlock", name |-> name, nc |-> nc, weights |-> weights,
     strides |-> strides, upsamp_factor |-> 1, use_vq |-> use_vq,
     vq_time |-> IF use_vq THEN vq_config.vq_time ELSE FALSE,
     vq |-> IF use_vq THEN VQBlockInit(vq_config.embeddings, nc) ELSE NoVQ]
LayersUpBlockInit(nc, weights, strides, use_vq, vq_config, name) ==
    [kind |-> "UpBlock", name |-> name, nc |-> nc, weights |-> weights, strides |-> strides,
     upsamp_factor |-> 1, use_vq |-> use_vq,
     vq_time |-> IF use_vq THEN vq_config.vq_time ELSE FALSE,
     vq |-> IF use_vq THEN VQBlockInit(vq_config.vq_embeddings, nc) ELSE NoVQ]
LayersUpBlockNoSkipInit(nc, weights, strides, use_vq, vq_config, name) ==
    [kind |-> "UpBlockNoSkip", name |-> name, nc |-> nc, weights |-> weights,
     strides |-> strides, upsamp_factor |-> 1, use_vq |-> use_vq,
     vq_time |-> IF use_vq THEN vq_config.vq_time ELSE FALSE,
     vq |-> IF use_vq THEN VQBlockInit(vq_config.vq_embeddings, nc) ELSE NoVQ]

(***************************************************************************)
(* UNet.__init__                                                           *)
(***************************************************************************)
\* the keys of config["vq_layers"], or [] when it is None (lines 36-41)
VQLayerNames(c) == IF c.vq_layers_none THEN {} ELSE DOMAIN c.vq_layers

\* self._vq_config = {"vq_beta": ...} or None (lines 36-41); "embeddings" is a key
\* only once a stage has stored it
NewVQConfig(c) ==
    [is_none |-> c.vq_layers_none, has_embeddings |-> FALSE, embeddings |-> 0]

\* self._vq_config["embeddings"] = n
SetEmbeddings(vc, n) == [vc EXCEPT !.has_embeddings = TRUE, !.embeddings = n]

\* max_num_layers (line 44)
MaxNumLayers(c) == FloorLog2(Min(c.source_dims[2], c.source_dims[3]))

\* the condition of the assert (line 45)
LayersValidUpperOnly(c) == c.layers <= MaxNumLayers(c)
LayersValid(c) == c.layers <= MaxNumLayers(c) /\ c.layers >= 0

\* the object before its first attribute is assigned
NewObject(c) ==
    [status |-> "none", error |-> "", attrs |-> {},
     vq_config |-> NewVQConfig(c),
     encoder |-> <<>>, decoder |-> <<>>,
     bottom_layer |-> NoBlock, upsample_out |-> NoBlock, output_vq |-> NoVQ]

Raise(self, e) == [self EXCEPT !.status = "failed", !.error = e]

\* the locals of get_encoder before the first loop (lines 57-59); bound tells whether
\* channels, source_kernel and source_strides have been assigned
NewLocals(c) ==
    [source_dims |-> c.source_dims, target_dims |-> c.target_dims,
     bound |-> FALSE, channels |-> 0,
     source_strides |-> <<0, 0, 0>>, source_kernel |-> <<0, 0, 0>>,
     cache |-> [channels |-> <<>>, strides |-> <<>>, kernels |-> <<>>, upsamp_factor |-> <<>>],
     error |-> ""]

\* one trajectory of the schedule rule (lines 64-79 for source, 81-96 for target)
Isotropic(dims) == (dims[1] \div 2) < 2
NextStridesAnisotropic(dims) == <<1, 2, 2>>
NextStrides(dims) == IF Isotropic(dims) THEN <<2, 2, 2>> ELSE <<1, 2, 2>>
NextKernel(dims) == IF Isotropic(dims) THEN <<4, 4, 4>> ELSE <<2, 4, 4>>
NextDims(dims) ==
    IF Isotropic(dims)
    THEN <<dims[1] \div 2, dims[2] \div 2, dims[3] \div 2>>
    ELSE <<dims[1], dims[2] \div 2, dims[3] \div 2>>

\* one iteration of the first loop of get_encoder (lines 62-101)
ScheduleStep(loc, i, c) ==
    LET channels == Min(c.nc * Pow2(i), MAX_CHANNELS)
        sd == NextDims(loc.source_dims)
        td == NextDims(loc.target_dims)
        ts == NextStrides(loc.target_dims)
        tk == NextKernel(loc.target_dims)
        l1 == [loc EXCEPT !.bound = TRUE,
                          !.channels = channels,
                          !.source_strides = NextStrides(loc.source_dims),
                          !.source_kernel = NextKernel(loc.source_dims),
                          !.source_dims = sd,
                          !.target_dims = td,
                          !.cache.channels = Append(@, channels),
                          !.cache.strides = Append(@, ts),
                          !.cache.kernels = Append(@, tk)]
    IN  IF sd[1] = 0
        THEN [l1 EXCEPT !.error = "ZeroDivisionError"]
        ELSE [l1 EXCEPT !.cache.upsamp_factor = Append(@, td[1] \div sd[1])]

\* the first loop of get_encoder (lines 61-101), from iteration i on
RECURSIVE ScheduleLoop(_, _, _)
ScheduleLoop(loc, i, c) ==
    IF i >= c.layers \/ loc.error # ""
    THEN loc
    ELSE ScheduleLoop(ScheduleStep(loc, i, c), i + 1, c)

\* the second loop of get_encoder (lines 103-117), from iteration i on
RECURSIVE EncoderLoop(_, _, _, _)
EncoderLoop(self, loc, i, c) ==
    IF i >= c.layers
    THEN self
    ELSE LET use_vq == DownName(i) \in VQLayerNames(c)
             vc == IF use_vq
                   THEN SetEmbeddings(self.vq_config, c.vq_layers[DownName(i)])
                   ELSE self.vq_config
             block == DownBlockInit(loc.channels, loc.source_kernel, loc.source_strides,
                                    use_vq, vc, DownName(i))
         IN  EncoderLoop([self EXCEPT !.vq_config = vc, !.encoder = Append(@, block)],
                         loc, i + 1, c)

\* the bottleneck block (lines 119-131)
BottomLayer(self, loc, c) ==
    LET use_vq == "bottom" \in VQLayerNames(c)
        vc == IF use_vq
              THEN SetEmbeddings(self.vq_config, c.vq_layers["bottom"])
              ELSE self.vq_config
        s1 == [self EXCEPT !.vq_config = vc]
    IN  IF ~loc.bound
        THEN Raise(s1, "UnboundLocalError")
        ELSE [s1 EXCEPT !.bottom_layer =
                            DownBlockInit(loc.channels, loc.source_kernel, <<1, 1, 1>>,
                                          use_vq, vc, "bottom"),
                        !.attrs = @ \cup {"bottom_layer"}]

\* get_encoder (lines 53-133): the object after it, and the locals it ended with
GetEncoder(self, c) ==
    LET loc == ScheduleLoop(NewLocals(c), 0, c)
    IN  IF loc.error # ""
        THEN [self |-> Raise(self, loc.error), cache |-> loc.cache]
        ELSE [self |-> BottomLayer(EncoderLoop(self, loc, 0, c), loc, c), cache |-> loc.cache]

\* the loop of get_decoder (lines 138-158), from iteration i down to 0
RECURSIVE DecoderLoop(_, _, _, _)
DecoderLoop(self, cache, i, c) ==
    IF i < 0
    THEN self
    ELSE LET use_vq == UpName(i) \in VQLayerNames(c)
             vc == IF use_vq
                   THEN SetEmbeddings(self.vq_config, c.vq_layers[UpName(i)])
                   ELSE self.vq_config
             block == UpBlockInit(cache.channels[i + 1], cache.kernels[i + 1],
                                  cache.strides[i + 1], cache.upsamp_factor[i + 1],
                                  use_vq, vc, UpName(i))
         IN  DecoderLoop([self EXCEPT !.vq_config = vc, !.decoder = Append(@, block)],
                         cache, i - 1, c)

\* the extra up-sampling stage (lines 160-175); channels is the local the loop left
UpsampleStage(self, cache, c) ==
    IF ~c.upsample_layer
    THEN self
    ELSE LET use_vq == "upsamp" \in VQLayerNames(c)
             vc == IF use_vq
                   THEN SetEmbeddings(self.vq_config, c.vq_layers["upsamp"])
                   ELSE self.vq_config
             s1 == [self EXCEPT !.vq_config = vc, !.attrs = @ \cup {"upsample_in"}]
         IN  IF c.layers < 1
             THEN Raise(s1, "UnboundLocalError")
             ELSE [s1 EXCEPT !.upsample_out =
                                 UpBlockInit(cache.channels[1], <<2, 4, 4>>, <<1, 2, 2>>, 1,
                                             use_vq, vc, "upsamp"),
                             !.attrs = @ \cup {"upsample_out"}]

\* the output-level quantiser (lines 185-193)
OutputVQ(self, c) ==
    IF "final" \in VQLayerNames(c)
    THEN IF ~self.vq_config.has_embeddings
         THEN Raise(self, "KeyError")
         ELSE [self EXCEPT !.output_vq = VQBlockInit(self.vq_config.embeddings, 1),
                           !.attrs = @ \cup {"output_vq"}]
    ELSE [self EXCEPT !.output_vq = NoVQ, !.attrs = @ \cup {"output_vq"}]

\* get_decoder (lines 135-193)
GetDecoder(self, cache, c) ==
    LET s1 == UpsampleStage(DecoderLoop(self, cache, c.layers - 1, c), cache, c)
    IN  IF s1.status = "failed"
        THEN s1
        ELSE OutputVQ([s1 EXCEPT !.attrs = @ \cup {"final_layer"}], c)

\* UNet.__init__ (lines 19-51): the object it leaves behind, completely built or as
\* the exception left it
UNetInit(c) ==
    LET s0 == NewObject(c)
    IN  IF ~LayersValid(c)
        THEN Raise(s0, "AssertionError")
        ELSE LET s1 == [s0 EXCEPT !.attrs = {"encoder", "decoder"}]
                 e == GetEncoder(s1, c)
             IN  IF e.self.status = "failed"
                 THEN e.self
                 ELSE LET s2 == GetDecoder(e.self, e.cache, c)
                      IN  IF s2.status = "failed"
                          THEN s2
                          ELSE [s2 EXCEPT !.status = "built"]

(***************************************************************************)
(* Symbolic tensors and the layers' forward passes.                        *)
(***************************************************************************)
NoTensor == [shape |-> <<0, 0, 0>>, ch |-> 0, val |-> <<>>]

CeilDiv(n, s) == (n + s - 1) \div s

\* Conv3D(nc, weights, strides, padding="same") applied to t
Conv3D(label, owner, nc, strides, t) ==
    [shape |-> <<CeilDiv(t.shape[1], strides[1]), CeilDiv(t.shape[2], strides[2]),
                 CeilDiv(t.shape[3], strides[3])>>,
     ch |-> nc, val |-> <<label, owner>> \o t.val]

\* Conv3DTranspose(nc, weights, strides, padding="same") applied to t
Conv3DTranspose(label, owner, nc, strides, t) ==
    [shape |-> <<t.shape[1] * strides[1], t.shape[2] * strides[2], t.shape[3] * strides[3]>>,
     ch |-> nc, val |-> <<label, owner>> \o t.val]

\* UpSampling3D(size=(1, 2, 2)) applied to t
UpSampling3D(t) ==
    [shape |-> <<t.shape[1], 2 * t.shape[2], 2 * t.shape[3]>>,
     ch |-> t.ch, val |-> <<"upsample_in">> \o t.val]

\* InstanceNorm.call, tf.nn.relu and a VQBlock call keep the shape
InstanceNorm(label, owner, t) == [t EXCEPT !.val = <<label, owner>> \o @]
Relu(t) == [t EXCEPT !.val = <<"relu">> \o @]
VQApply(owner, t) == [t EXCEPT !.val = <<"vq", owner>> \o @]

\* self.vq(x, t): the quantiser called with the time value (None when has_t is false)
VQApplyT(owner, t, has_t) ==
    [t EXCEPT !.val = <<"vq_t", owner>> \o @ \o <<IF has_t THEN "t" ELSE "None">>]

\* the first statement of every block's call: t, tiled over the spatial positions, is
\* concatenated to x as one more channel when t is given and vq_time is False
TimeConcatAlways(block, xin, has_t) ==
    IF has_t
    THEN [shape |-> xin.shape, ch |-> xin.ch + 1,
          val |-> <<"time_concat">> \o xin.val \o <<"time_tile", "t">>]
    ELSE xin
TimeConcat(block, xin, has_t) ==
    IF has_t /\ ~block.vq_time
    THEN [shape |-> xin.shape, ch |-> xin.ch + 1,
          val |-> <<"time_concat">> \o xin.val \o <<"time_tile", "t">>]
    ELSE xin

\* the block's quantiser after the last normalisation: called without t, called with t,
\* or not at all
BlockVQ(block, t, has_t) ==
    IF block.use_vq /\ ~block.vq_time THEN VQApply(block.name, t)
    ELSE IF block.use_vq /\ block.vq_time THEN VQApplyT(block.name, t, has_t)
    ELSE t

\* DownBlock.call(x, t): the pair (main output, skip output); x_in is x as the first
\* convolution receives it
DownBlockCall(block, xin, has_t) ==
    LET x0 == TimeConcat(block, xin, has_t)
        skip == Relu(InstanceNorm("instancenorm1", block.name,
                        Conv3D("conv1", block.name, block.nc, <<1, 1, 1>>, x0)))
        main == InstanceNorm("instancenorm2", block.name,
                        Conv3D("conv2", block.name, block.nc, block.strides, skip))
    IN  [x |-> Relu(BlockVQ(block, main, has_t)), skip |-> skip, x_in |-> x0]

\* BottomBlock.call(x, t)
BottomBlockCall(block, xin, has_t) ==
    LET x0 == TimeConcat(block, xin, has_t)
        c1 == Relu(InstanceNorm("instancenorm1", block.name,
                      Conv3D("conv1", block.name, block.nc, block.strides, x0)))
        c2 == InstanceNorm("instancenorm2", block.name,
                      Conv3D("conv2", block.name, block.nc, block.strides, c1))
    IN  [x |-> Relu(BlockVQ(block, c2, has_t)), x_in |-> x0]

\* UpBlockNoSkip.call(x, t)
UpBlockNoSkipCall(block, xin, has_t) ==
    LET x0 == TimeConcat(block, xin, has_t)
        up == Relu(InstanceNorm("instancenorm1", block.name,
                      Conv3DTranspose("tconv", block.name, block.nc, block.strides, x0)))
        c1 == InstanceNorm("instancenorm2", block.name,
                      Conv3D("conv", block.name, block.nc, <<1, 1, 1>>, up))
    IN  [x |-> Relu(BlockVQ(block, c1, has_t)), x_in |-> x0]

\* UpBlock.call(x, skip, t): Concatenate raises when the spatial shapes differ
UpBlockCall(block, xin, skip, has_t) ==
    LET x0 == TimeConcat(block, xin, has_t)
        up == Relu(InstanceNorm("instancenormt", block.name,
                      Conv3DTranspose("tconv", block.name, block.nc, block.strides, x0)))
        cat == [shape |-> up.shape, ch |-> up.ch + skip.ch,
                val |-> <<"concat">> \o up.val \o skip.val]
        c1 == Relu(InstanceNorm("instancenorm1", block.name,
                      Conv3D("conv1", block.name, block.nc, <<1, 1, 1>>, cat)))
        c2 == InstanceNorm("instancenorm2", block.name,
                      Conv3D("conv2", block.name, block.nc, <<1, 1, 1>>, c1))
    IN  IF up.shape # skip.shape
        THEN [ok |-> FALSE, x |-> NoTensor, x_in |-> x0]
        ELSE [ok |-> TRUE, x |-> Relu(BlockVQ(block, c2, has_t)), x_in |-> x0]

\* a + b with broadcasting: every axis equal, or 1 on one side
Broadcastable(m, n) == m = n \/ m = 1 \/ n = 1
Max(a, b) == IF a >= b THEN a ELSE b
Add(a, b) ==
    IF /\ \A i \in 1..3 : Broadcastable(a.shape[i], b.shape[i])
       /\ Broadcastable(a.ch, b.ch)
    THEN [ok |-> TRUE,
          x |-> [shape |-> [i \in 1..3 |-> Max(a.shape[i], b.shape[i])],
                 ch |-> Max(a.ch, b.ch),
                 val |-> <<"add">> \o a.val \o b.val]]
    ELSE [ok |-> FALSE, x |-> NoTensor]

\* self.final_layer: Conv3D(1, (1, 1, 1), (1, 1, 1), activation="tanh") (lines 177-183)
FinalLayer(t) ==
    [shape |-> t.shape, ch |-> 1, val |-> <<"tanh", "final">> \o t.val]

\* self.output_vq(x)
OutputVQCall(t) == [t EXCEPT !.val = <<"output_vq">> \o @]

(***************************************************************************)
(* UNet.call                                                               *)
(***************************************************************************)
NoRet == [kind |-> "none", primary |-> NoTensor, has_secondary |-> FALSE,
          secondary |-> NoTensor]
Raised == [kind |-> "error", primary |-> NoTensor, has_secondary |-> FALSE,
           secondary |-> NoTensor]
Returned(p, has_s, sec) ==
    [kind |-> "value", primary |-> p, has_secondary |-> has_s, secondary |-> sec]

\* the four return statements (lines 218-228)
CombineVQNoInput(xf, up, has_vq, residual) ==
    IF ~has_vq /\ ~residual THEN Returned(xf, FALSE, NoTensor)
    ELSE IF ~has_vq /\ residual
    THEN (LET p == Add(xf, up)
          IN  IF p.ok THEN Returned(p.x, FALSE, NoTensor) ELSE Raised)
    ELSE IF has_vq /\ ~residual
    THEN Returned(xf, TRUE, OutputVQCall(xf))
    ELSE (LET p == Add(xf, up)
          IN  IF p.ok THEN Returned(p.x, TRUE, OutputVQCall(xf)) ELSE Raised)
Combine(xf, up, has_vq, residual) ==
    IF ~has_vq /\ ~residual THEN Returned(xf, FALSE, NoTensor)
    ELSE IF ~has_vq /\ residual
    THEN (LET p == Add(xf, up)
          IN  IF p.ok THEN Returned(p.x, FALSE, NoTensor) ELSE Raised)
    ELSE IF has_vq /\ ~residual
    THEN (LET q == Add(OutputVQCall(xf), up)
          IN  IF q.ok THEN Returned(xf, TRUE, q.x) ELSE Raised)
    ELSE (LET p == Add(xf, up)
              q == Add(OutputVQCall(xf), up)
          IN  IF p.ok /\ q.ok THEN Returned(p.x, TRUE, q.x) ELSE Raised)

\* the network input: a tensor of spatial shape source_dims with one channel
InputTensor(c) == [shape |-> c.source_dims, ch |-> 1, val |-> <<"x">>]

(***************************************************************************)
(* Configurations.                                                         *)
(***************************************************************************)
Hyper(sd, td, nc, layers, vq_none, vql, up, res) ==
    [source_dims |-> sd, target_dims |-> td, nc |-> nc, layers |-> layers,
     vq_layers_none |-> vq_none, vq_layers |-> vql,
     upsample_layer |-> up, residual |-> res]

\* source volumes: any slice count, any height, width equal to the height or the largest
SourceDimsSet ==
    UNION {{<<d, h, h>>, <<d, h, MaxSide>>} : d \in 1..MaxSlices, h \in 1..MaxSide}

\* target volumes of a source volume: any slice count, the source's height and width or
\* twice them
TargetDimsSet(sd) ==
    UNION {{<<d, sd[2], sd[3]>>, <<d, 2 * sd[2], 2 * sd[3]>>} : d \in 1..MaxSlices}

\* configurations without vector quantisation, over the shapes in sds and all depths
ShapeConfigs(sds) ==
    UNION {{Hyper(sd, td, 16, layers, TRUE, <<>>, up, res) :
                td \in TargetDimsSet(sd), layers \in (-1)..MaxLayers,
                up \in BOOLEAN, res \in BOOLEAN} : sd \in sds}

\* base channel counts: a small one, half the cap and the cap
NcSet == {16, 256, 512}

\* configurations over the base channel counts ncs, on one 4 x 8 x 8 volume
ChannelConfigs(ncs) ==
    {Hyper(<<4, 8, 8>>, <<4, 8, 8>>, nc, layers, TRUE, <<>>, FALSE, FALSE) :
         nc \in ncs, layers \in 1..3}

\* the stage names a vq_layers mapping may hold
WiringStages == {"down_0", "down_1", "bottom", "up_0", "up_1", "upsamp", "final"}

\* the mappings from at most MaxVQStages of the names to embedding counts
VQLayerMaps(names) ==
    UNION {[S -> 1..MaxEmbeddings] :
               S \in {T \in SUBSET names : Cardinality(T) <= MaxVQStages}}

\* configurations over the vq_layers mappings, on one 4 x 4 x 4 source volume
WiringConfigs(maps) ==
    {Hyper(<<4, 4, 4>>, IF up THEN <<4, 8, 8>> ELSE <<4, 4, 4>>, 16, layers, FALSE, vql,
           up, res) :
         layers \in 0..2, vql \in maps, up \in BOOLEAN, res \in BOOLEAN}

(***************************************************************************)
(* The VQBlock object before it exists.                                    *)
(***************************************************************************)
NoQuantiser ==
    [built |-> FALSE, num_embeddings |-> 0, embedding_dim |-> 0, beta |-> 0, dictionary |-> <<>>]

\* the result of VQBlock.call before any call
NoVQRet == [kind |-> "none", shape |-> <<>>, data |-> <<>>, code_idx |-> <<>>,
            loss |-> [num |-> 0, den |-> 1]]

\* the stand-alone block before its arguments are chosen, and before its first call
NoBlockIn ==
    [kind |-> "none", nc |-> 0, weights |-> <<0, 0, 0>>, strides |-> <<0, 0, 0>>,
     use_vq |-> FALSE,
     vq_config |-> [embeddings |-> 0, vq_embeddings |-> 0, vq_time |-> FALSE],
     x |-> NoTensor, skip |-> NoTensor, has_t |-> FALSE]
NoBlockRet == [kind |-> "none", x |-> NoTensor, x_in |-> NoTensor]

(***************************************************************************)
(* Specification of the network: construction, then forward calls.         *)
(***************************************************************************)
Init ==
    /\ cfg \in ShapeConfigs(SourceDimsSet) \cup ChannelConfigs(NcSet)
                 \cup WiringConfigs(VQLayerMaps(WiringStages))
    /\ net = NewObject(cfg)
    /\ pc = "new"
    /\ x = NoTensor
    /\ upsampled_x = NoTensor
    /\ skip_layers = <<>>
    /\ trace = <<>>
    /\ ret = NoRet
    /\ vq = NoQuantiser
    /\ vq_x = [shape |-> <<>>, data |-> <<>>]
    /\ vq_ret = NoVQRet
    /\ losses = <<>>
    /\ blk = NoBlock
    /\ blk_in = NoBlockIn
    /\ blk_ret = NoBlockRet

\* UNet(initialiser, config)
Construct ==
    /\ pc = "new"
    /\ net' = UNetInit(cfg)
    /\ pc' = IF net'.status = "built" THEN "built" ELSE "failed"
    /\ UNCHANGED <<cfg, x, upsampled_x, skip_layers, trace, ret>>
    /\ UNCHANGED vqvars
    /\ UNCHANGED blkvars

\* UNet.call, lines 196-201
CallBegin ==
    /\ pc \in {"built", "returned", "raised"}
    /\ skip_layers' = <<>>
    /\ trace' = <<>>
    /\ ret' = NoRet
    /\ x' = InputTensor(cfg)
    /\ upsampled_x' = IF cfg.upsample_layer THEN UpSampling3D(InputTensor(cfg))
                                            ELSE InputTensor(cfg)
    /\ pc' = "encoder"
    /\ UNCHANGED <<cfg, net>>
    /\ UNCHANGED vqvars
    /\ UNCHANGED blkvars

\* UNet.call, lines 203-205: one iteration of the encoder loop
EncoderStep ==
    /\ pc = "encoder"
    /\ Len(skip_layers) < Len(net.encoder)
    /\ LET r == DownBlockCall(net.encoder[Len(skip_layers) + 1], x, FALSE)
       IN  /\ x' = r.x
           /\ skip_layers' = Append(skip_layers, r.skip)
    /\ UNCHANGED <<cfg, net, pc, upsampled_x, trace, ret>>
    /\ UNCHANGED vqvars
    /\ UNCHANGED blkvars

\* UNet.call, lines 207-208: the bottleneck, then skip_layers.reverse()
BottomStepReversingDecoder ==
    /\ pc = "encoder"
    /\ Len(skip_layers) = Len(net.encoder)
    /\ x' = DownBlockCall(net.bottom_layer, x, FALSE).x
    /\ net' = [net EXCEPT !.decoder = Reverse(@)]
    /\ pc' = "decoder"
    /\ UNCHANGED <<cfg, skip_layers, upsampled_x, trace, ret>>
    /\ UNCHANGED vqvars
    /\ UNCHANGED blkvars
BottomStep ==
    /\ pc = "encoder"
    /\ Len(skip_layers) = Len(net.encoder)
    /\ x' = DownBlockCall(net.bottom_layer, x, FALSE).x
    /\ skip_layers' = Reverse(skip_layers)
    /\ pc' = "decoder"
    /\ UNCHANGED <<cfg, net, upsampled_x, trace, ret>>
    /\ UNCHANGED vqvars
    /\ UNCHANGED blkvars

\* UNet.call, lines 210-211: one iteration of the loop over zip(skip_layers, self.decoder);
\* trace records the decoder stage and the tensor it was handed as skip
DecoderStep ==
    /\ pc = "decoder"
    /\ Len(trace) < Min(Len(skip_layers), Len(net.decoder))
    /\ LET skip == skip_layers[Len(trace) + 1]
           tconv == net.decoder[Len(trace) + 1]
           r == UpBlockCall(tconv, x, skip, FALSE)
       IN  /\ trace' = Append(trace, [stage |-> tconv.name, skip |-> skip.val])
           /\ x' = r.x
           /\ pc' = IF r.ok THEN "decoder" ELSE "raised"
           /\ ret' = IF r.ok THEN ret ELSE Raised
    /\ UNCHANGED <<cfg, net, upsampled_x, skip_layers>>
    /\ UNCHANGED vqvars
    /\ UNCHANGED blkvars

\* UNet.call, lines 213-228: the extra up-sampling stage, the final projection and the
\* return statement
OutputStep ==
    /\ pc = "decoder"
    /\ Len(trace) >= Min(Len(skip_layers), Len(net.decoder))
    /\ LET u == IF cfg.upsample_layer
                THEN UpBlockCall(net.upsample_out, x, upsampled_x, FALSE)
                ELSE [ok |-> TRUE, x |-> x, x_in |-> x]
           r == IF u.ok
                THEN Combine(FinalLayer(u.x), upsampled_x, net.output_vq.present, cfg.residual)
                ELSE Raised
       IN  /\ ret' = r
           /\ x' = IF u.ok THEN FinalLayer(u.x) ELSE NoTensor
           /\ pc' = IF r.kind = "value" THEN "returned" ELSE "raised"
    /\ UNCHANGED <<cfg, net, upsampled_x, skip_layers, trace>>
    /\ UNCHANGED vqvars
    /\ UNCHANGED blkvars

Next ==
    \/ Construct
    \/ CallBegin
    \/ EncoderStep
    \/ BottomStep
    \/ DecoderStep
    \/ OutputStep

Spec == Init /\ [][Next]_vars

(***************************************************************************)
(* VQBlock.  Numbers are integers counted in hundredths; an element of a   *)
(* tensor that takes part in differentiation is a record [v, g]: its       *)
(* forward value and its derivative with respect to the matching element   *)
(* of the input x.                                                         *)
(***************************************************************************)
\* WEIGHT_SCALE = 0.02, in hundredths
WEIGHT_SCALE == 2

\* codebook entries (RandomUniform draws, later moved by the optimiser) and input values
DictVals == {-100, 100}
XVals == {-90, 0, 60}
\* embedding_dim, and the last axis of an input
EmbeddingDims == {1, 2}
\* the leading axis of an input
RowCounts == {1, 2}
\* beta, in hundredths
BetaSet == {25, 100}

\* a sequence with every element evaluated
Row(s) == s \o <<>>

RECURSIVE SumSeq(_)
SumSeq(s) == IF Len(s) = 0 THEN 0 ELSE s[1] + SumSeq(Tail(s))


\* tf.stop_gradient
StopGradient(e) == [v |-> e.v, g |-> 0]
Sub(a, b) == [v |-> a.v - b.v, g |-> a.g - b.g]
Plus(a, b) == [v |-> a.v + b.v, g |-> a.g + b.g]

\* tf.reshape(x, [-1, embedding_dim]): the rows of the flattened input; the -1 cannot be
\* inferred when embedding_dim is 0 or does not divide the number of elements
CanFlatten(xin, dim) == dim > 0 /\ Len(xin.data) % dim = 0
Flatten(xin, dim) ==
    Row([r \in 1..(Len(xin.data) \div dim) |->
            Row([d \in 1..dim |-> xin.data[(r - 1) * dim + d]])])

\* tf.argmin over one row of distances, as a 0-based index
ArgMinLast(row) ==
    (CHOOSE i \in 1..Len(row) :
        /\ \A j \in 1..Len(row) : row[i] <= row[j]
        /\ \A j \in (i + 1)..Len(row) : row[j] > row[i]) - 1
ArgMin(row) ==
    (CHOOSE i \in 1..Len(row) :
        /\ \A j \in 1..Len(row) : row[i] <= row[j]
        /\ \A j \in 1..(i - 1) : row[j] > row[i]) - 1

\* VQBlock.get_code_indices(flattened)
GetCodeIndices(flattened, q) ==
    LET similarity == Row([r \in 1..Len(flattened) |->
                          Row([k \in 1..q.num_embeddings |->
                              SumSeq([d \in 1..q.embedding_dim |->
                                         flattened[r][d] * q.dictionary[d][k]])])])
        rowsq == Row([r \in 1..Len(flattened) |->
                     SumSeq([d \in 1..q.embedding_dim |-> flattened[r][d] * flattened[r][d]])])
        colsq == Row([k \in 1..q.num_embeddings |->
                     SumSeq([d \in 1..q.embedding_dim |->
                                q.dictionary[d][k] * q.dictionary[d][k]])])
        distances == Row([r \in 1..Len(flattened) |->
                         Row([k \in 1..q.num_embeddings |->
                             rowsq[r] + colsq[k] - 2 * similarity[r][k]])])
    IN  Row([r \in 1..Len(flattened) |-> ArgMin(distances[r])])

\* tf.one_hot(code_idx, num_embeddings)
OneHot(code_idx, n) ==
    Row([r \in 1..Len(code_idx) |-> Row([k \in 1..n |-> IF k = code_idx[r] + 1 THEN 1 ELSE 0])])

\* quantized (lines 270-277 of layers.py), flattened back to the order of the input
QuantizedNeverScaled(idx_one_hot, q) ==
    LET rows == Row([r \in 1..Len(idx_one_hot) |->
                    Row([d \in 1..q.embedding_dim |->
                        SumSeq([k \in 1..q.num_embeddings |->
                                   idx_one_hot[r][k] * q.dictionary[d][k]])])])
    IN  Row([i \in 1..(Len(rows) * q.embedding_dim) |->
            rows[((i - 1) \div q.embedding_dim) + 1][((i - 1) % q.embedding_dim) + 1]])
QuantizedAlwaysScaled(idx_one_hot, q) ==
    LET rows == Row([r \in 1..Len(idx_one_hot) |->
                    Row([d \in 1..q.embedding_dim |->
                        (SumSeq([k \in 1..q.num_embeddings |->
                                    idx_one_hot[r][k] * q.dictionary[d][k]]) * WEIGHT_SCALE)
                            \div 100])])
    IN  Row([i \in 1..(Len(rows) * q.embedding_dim) |->
            rows[((i - 1) \div q.embedding_dim) + 1][((i - 1) % q.embedding_dim) + 1]])
Quantized(idx_one_hot, q) ==
    LET rows == IF q.embedding_dim = 1
                THEN Row([r \in 1..Len(idx_one_hot) |->
                         <<(SumSeq([k \in 1..q.num_embeddings |->
                                       idx_one_hot[r][k] * q.dictionary[1][k]]) * WEIGHT_SCALE)
                               \div 100>>])
                ELSE Row([r \in 1..Len(idx_one_hot) |->
                         Row([d \in 1..q.embedding_dim |->
                             SumSeq([k \in 1..q.num_embeddings |->
                                        idx_one_hot[r][k] * q.dictionary[d][k]])])])
    IN  Row([i \in 1..(Len(rows) * q.embedding_dim) |->
            rows[((i - 1) \div q.embedding_dim) + 1][((i - 1) % q.embedding_dim) + 1]])

\* q = x + tf.stop_gradient(q - x), element by element
StraightThroughDetached(xe, qe) == StopGradient(qe)
StraightThrough(xe, qe) == Plus(xe, StopGradient(Sub(qe, xe)))

\* the value handed to add_loss, as the fraction num / den:
\* mean(square(stop_gradient(x) - q)) + beta * mean(square(x - stop_gradient(q)))
LossValueNoBeta(xs, qs, beta) ==
    LET dsum == SumSeq([i \in 1..Len(xs) |->
                    Sub(StopGradient(xs[i]), qs[i]).v * Sub(StopGradient(xs[i]), qs[i]).v])
        csum == SumSeq([i \in 1..Len(xs) |->
                    Sub(xs[i], StopGradient(qs[i])).v * Sub(xs[i], StopGradient(qs[i])).v])
    IN  [num |-> 100 * dsum + 100 * csum, den |-> 100 * Len(xs)]
LossValue(xs, qs, beta) ==
    LET dsum == SumSeq([i \in 1..Len(xs) |->
                    Sub(StopGradient(xs[i]), qs[i]).v * Sub(StopGradient(xs[i]), qs[i]).v])
        csum == SumSeq([i \in 1..Len(xs) |->
                    Sub(xs[i], StopGradient(qs[i])).v * Sub(xs[i], StopGradient(qs[i])).v])
    IN  [num |-> 100 * dsum + beta * csum, den |-> 100 * Len(xs)]

\* VQBlock.call(x): what it returns, the indices it selected and the loss it registers
\* (tf.argmin has nothing to reduce over when the dictionary has no column)
VQForward(q, xin) ==
    IF ~CanFlatten(xin, q.embedding_dim) \/ q.num_embeddings = 0
    THEN [NoVQRet EXCEPT !.kind = "error"]
    ELSE LET flat == Flatten(xin, q.embedding_dim)
             code_idx == GetCodeIndices(flat, q)
             quantized == Quantized(OneHot(code_idx, q.num_embeddings), q)
             xs == Row([i \in 1..Len(xin.data) |-> [v |-> xin.data[i], g |-> 1]])
             qs == Row([i \in 1..Len(xin.data) |-> [v |-> quantized[i], g |-> 0]])
         IN  [kind |-> "value", shape |-> xin.shape,
              data |-> Row([i \in 1..Len(xin.data) |-> StraightThrough(xs[i], qs[i])]),
              code_idx |-> code_idx,
              loss |-> LossValue(xs, qs, q.beta)]

\* the inputs: tensors of shape (n, c) over XVals
VQInputs ==
    UNION {{[shape |-> <<n, c>>, data |-> d] : d \in [1..(n * c) -> XVals]} :
               n \in RowCounts, c \in EmbeddingDims}

(***************************************************************************)
(* Specification of the quantiser: construction, then calls.               *)
(***************************************************************************)
InitVQ ==
    /\ cfg = Hyper(<<4, 4, 4>>, <<4, 4, 4>>, 16, 1, TRUE, <<>>, FALSE, FALSE)
    /\ net = NewObject(cfg)
    /\ pc = "new"
    /\ x = NoTensor
    /\ upsampled_x = NoTensor
    /\ skip_layers = <<>>
    /\ trace = <<>>
    /\ ret = NoRet
    /\ vq = NoQuantiser
    /\ vq_x \in VQInputs
    /\ vq_ret = NoVQRet
    /\ losses = <<>>
    /\ blk = NoBlock
    /\ blk_in = NoBlockIn
    /\ blk_ret = NoBlockRet

\* VQBlock(num_embeddings, embedding_dim, beta): the dictionary is drawn by the initialiser;
\* the sizes are stored and used as the shape of the weight as they come, zero included
VQConstruct ==
    /\ ~vq.built
    /\ \E n \in 0..MaxEmbeddings, dim \in {0} \cup EmbeddingDims, beta \in BetaSet :
         \E dictionary \in [1..dim -> [1..n -> DictVals]] :
            vq' = [built |-> TRUE, num_embeddings |-> n, embedding_dim |-> dim,
                   beta |-> beta, dictionary |-> dictionary]
    /\ UNCHANGED <<vq_x, vq_ret, losses>>
    /\ UNCHANGED netvars
    /\ UNCHANGED blkvars

\* VQBlock.call(x) on the input at hand; the layer's losses are those of its last call
VQCall ==
    /\ vq.built
    /\ LET r == VQForward(vq, vq_x)
       IN  /\ vq_ret' = r
           /\ losses' = IF r.kind = "value" THEN <<r.loss>> ELSE <<>>
    /\ UNCHANGED <<vq, vq_x>>
    /\ UNCHANGED netvars
    /\ UNCHANGED blkvars

NextVQ ==
    \/ VQConstruct
    \/ VQCall

SpecVQ == InitVQ /\ [][NextVQ]_vars

(***************************************************************************)
(* Specification of one convolutional block of layer/layers.py:            *)
(* construction, then calls with or without a time value.                  *)
(***************************************************************************)
BlockKinds == {"DownBlock", "BottomBlock", "UpBlock", "UpBlockNoSkip"}
BlockStrides == {<<1, 2, 2>>, <<2, 2, 2>>}
BlockShapes == {<<2, 2, 2>>, <<2, 4, 4>>, <<4, 4, 4>>}
BlockChannels == {1, 16}

\* the skip tensors offered to an UpBlock fed with a tensor of shape sh: one of the shape
\* its transpose convolution produces, one of the shape of its input
SkipTensors(sh, strides) ==
    {[shape |-> <<sh[1] * strides[1], sh[2] * strides[2], sh[3] * strides[3]>>, ch |-> 16,
      val |-> <<"skip">>],
     [shape |-> sh, ch |-> 16, val |-> <<"skip">>]}

\* constructor and call arguments: vq_config carries the keys the constructors read
BlockInputs ==
    UNION {{[kind |-> kind, nc |-> 16, weights |-> <<2, 4, 4>>, strides |-> strides,
             use_vq |-> use_vq,
             vq_config |-> [embeddings |-> n, vq_embeddings |-> n, vq_time |-> vq_time],
             x |-> [shape |-> sh, ch |-> ch, val |-> <<"x">>],
             skip |-> skip, has_t |-> has_t] :
                skip \in IF kind = "UpBlock" THEN SkipTensors(sh, strides) ELSE {NoTensor},
                n \in 1..MaxEmbeddings} :
           kind \in BlockKinds, strides \in BlockStrides, use_vq \in BOOLEAN,
           vq_time \in BOOLEAN, has_t \in BOOLEAN, sh \in BlockShapes,
           ch \in BlockChannels}

InitBlock ==
    /\ cfg = Hyper(<<4, 4, 4>>, <<4, 4, 4>>, 16, 1, TRUE, <<>>, FALSE, FALSE)
    /\ net = NewObject(cfg)
    /\ pc = "new"
    /\ x = NoTensor
    /\ upsampled_x = NoTensor
    /\ skip_layers = <<>>
    /\ trace = <<>>
    /\ ret = NoRet
    /\ vq = NoQuantiser
    /\ vq_x = [shape |-> <<>>, data |-> <<>>]
    /\ vq_ret = NoVQRet
    /\ losses = <<>>
    /\ blk = NoBlock
    /\ blk_in \in BlockInputs
    /\ blk_ret = NoBlockRet

\* DownBlock(...), BottomBlock(...), UpBlock(...) or UpBlockNoSkip(...)
BlockConstruct ==
    /\ blk.kind = "none"
    /\ blk' = IF blk_in.kind = "DownBlock"
              THEN LayersDownBlockInit(blk_in.nc, blk_in.weights, blk_in.strides,
                                       blk_in.use_vq, blk_in.vq_config, "block")
              ELSE IF blk_in.kind = "BottomBlock"
              THEN LayersBottomBlockInit(blk_in.nc, blk_in.weights, blk_in.strides,
                                         blk_in.use_vq, blk_in.vq_config, "block")
              ELSE IF blk_in.kind = "UpBlock"
              THEN LayersUpBlockInit(blk_in.nc, blk_in.weights, blk_in.strides,
                                     blk_in.use_vq, blk_in.vq_config, "block")
              ELSE LayersUpBlockNoSkipInit(blk_in.nc, blk_in.weights, blk_in.strides,
                                           blk_in.use_vq, blk_in.vq_config, "block")
    /\ UNCHANGED <<blk_in, blk_ret>>
    /\ UNCHANGED netvars
    /\ UNCHANGED vqvars

\* block(x, t), or block(x, skip, t) for an UpBlock; t is None when has_t is false
BlockCall ==
    /\ blk.kind # "none"
    /\ blk_ret' =
          IF blk.kind = "DownBlock"
          THEN LET r == DownBlockCall(blk, blk_in.x, blk_in.has_t)
               IN  [kind |-> "value", x |-> r.x, x_in |-> r.x_in]
          ELSE IF blk.kind = "BottomBlock"
          THEN LET r == BottomBlockCall(blk, blk_in.x, blk_in.has_t)
               IN  [kind |-> "value", x |-> r.x, x_in |-> r.x_in]
          ELSE IF blk.kind = "UpBlock"
          THEN LET r == UpBlockCall(blk, blk_in.x, blk_in.skip, blk_in.has_t)
               IN  [kind |-> IF r.ok THEN "value" ELSE "error", x |-> r.x, x_in |-> r.x_in]
          ELSE LET r == UpBlockNoSkipCall(blk, blk_in.x, blk_in.has_t)
               IN  [kind |-> "value", x |-> r.x, x_in |-> r.x_in]
    /\ UNCHANGED <<blk, blk_in>>
    /\ UNCHANGED netvars
    /\ UNCHANGED vqvars

NextBlock ==
    \/ BlockConstruct
    \/ BlockCall

SpecBlock == InitBlock /\ [][NextBlock]_vars

(***************************************************************************)
(* Properties of the network (checked under Spec).                         *)
(***************************************************************************)
\* the up-sampled copy of the raw input, as the table of outputs names it
UpsampledInputExpr == IF cfg.upsample_layer THEN <<"upsample_in", "x">> ELSE <<"x">>

\* an output-level quantiser is configured
OutputVQConfigured == "final" \in VQLayerNames(cfg)

\* k = floor(log2(m)), stated without the program's own computation
IsFloorLog2(k, m) == Pow2(k) <= m /\ m < Pow2(k + 1)
DepthBound == CHOOSE k \in 0..(MaxSide + 1) : IsFloorLog2(k, Min(cfg.source_dims[2], cfg.source_dims[3]))

\* C1: whenever UNet.call returns, the pair it returns is the row of the four-way table
\* selected by (output-level quantiser configured, residual configured): the primary
\* output is final(x), plus the up-sampled input when residual is configured; the
\* secondary output is none without an output-level quantiser and
\* VQ(final(x)) + up-sampled input with one; x here is the output of the final
\* projection, and the up-sampled input is the raw input, up-sampled when the extra
\* stage is configured.
C1_OutputTable ==
    pc = "returned" =>
        /\ ret.kind = "value"
        /\ SubSeq(x.val, 1, 2) = <<"tanh", "final">>
        /\ ret.primary.val = IF cfg.residual
                             THEN <<"add">> \o x.val \o UpsampledInputExpr
                             ELSE x.val
        /\ ret.has_secondary = OutputVQConfigured
        /\ OutputVQConfigured =>
               ret.secondary.val = <<"add", "output_vq">> \o x.val \o UpsampledInputExpr
        /\ ~OutputVQConfigured => ret.secondary = NoTensor

\* C1 witness: a call of a network with an output-level quantiser, residual learning and
\* the extra up-sampling stage has returned
C1_Witness ==
    /\ pc = "returned"
    /\ OutputVQConfigured
    /\ cfg.residual
    /\ cfg.upsample_layer
    /\ ret.has_secondary

\* C2: once construction has been attempted with layers < 0 or
\* layers > floor(log2(min(source height, source width))), it has failed with the
\* assertion error of the depth check and no encoder block, bottleneck block or decoder
\* block (nor any later attribute) has been created.
C2_InvalidDepthRejected ==
    (pc # "new" /\ (cfg.layers < 0 \/ cfg.layers > DepthBound)) =>
        /\ pc = "failed"
        /\ net.status = "failed"
        /\ net.error = "AssertionError"
        /\ net.attrs = {}
        /\ net.encoder = <<>>
        /\ net.decoder = <<>>
        /\ net.bottom_layer = NoBlock
        /\ net.upsample_out = NoBlock
        /\ net.output_vq = NoVQ

\* C2 witness: construction was attempted with a depth above the bound and was rejected
C2_Witness ==
    /\ pc = "failed"
    /\ cfg.layers > DepthBound
    /\ cfg.layers >= 1
    /\ net.error = "AssertionError"

\* C3 (as claimed): construction with layers = floor(log2(min(source height, source
\* width))) succeeds for all positive source_dims and target_dims; stated for depths of
\* at least 1, where the up-sample factor target_axis // source_axis is computed, and
\* for configurations without vector quantisation.
C3_MaxDepthSucceeds ==
    (pc # "new" /\ cfg.layers = DepthBound /\ cfg.layers >= 1 /\ cfg.vq_layers_none) =>
        net.status = "built"

\* C4 (as claimed): construction with layers = 0 succeeds and leaves no encoder stage, no
\* decoder stage and exactly one bottleneck block.
C4_ZeroLayersBuilds ==
    (pc # "new" /\ cfg.layers = 0) =>
        /\ net.status = "built"
        /\ net.encoder = <<>>
        /\ net.decoder = <<>>
        /\ net.bottom_layer.kind = "DownBlock"

\* C5 (as claimed): every forward call of a constructed network on an input of spatial
\* shape source_dims ends with a primary prediction of spatial shape target_dims and one
\* channel; stated for the configurations whose target_dims equal source_dims and that
\* have no extra up-sampling stage.
C5_OutputShape ==
    (pc \in {"returned", "raised"} /\ cfg.target_dims = cfg.source_dims
        /\ ~cfg.upsample_layer) =>
        /\ ret.kind = "value"
        /\ ret.primary.shape = cfg.target_dims
        /\ ret.primary.ch = 1

\* the expression of the skip tensor of encoder stage down_i starts with the ReLU of the
\* first normalisation of the first convolution of that stage
IsSkipOf(val, i) ==
    /\ Len(val) >= 5
    /\ SubSeq(val, 1, 5) = <<"relu", "instancenorm1", DownName(i), "conv1", DownName(i)>>

\* C6: in every forward pass the encoder and the decoder both have L = layers stages; the
\* k-th skip handed to a decoder stage (k = 1..) is handed to up_(L-k) and is the skip
\* tensor of down_(L-k), so each skip is consumed once, by the stage of its own index,
\* in reverse order of production; when the call returns all L skips have been consumed;
\* no tensor of the bottleneck is among the skips.
C6_SkipPairing ==
    pc \in {"encoder", "decoder", "returned", "raised"} =>
        /\ Len(net.encoder) = cfg.layers
        /\ Len(net.decoder) = cfg.layers
        /\ Len(skip_layers) <= cfg.layers
        /\ pc \in {"decoder", "returned"} => Len(skip_layers) = cfg.layers
        /\ Len(trace) <= cfg.layers
        /\ pc = "returned" => Len(trace) = cfg.layers
        /\ \A k \in 1..Len(trace) :
              /\ trace[k].stage = UpName(cfg.layers - k)
              /\ IsSkipOf(trace[k].skip, cfg.layers - k)
        /\ \A k \in 1..Len(skip_layers) : skip_layers[k].val[3] # "bottom"

\* C6 witness: a call of a two-stage network has returned after both decoder stages
\* received their skips
C6_Witness ==
    /\ pc = "returned"
    /\ cfg.layers = 2
    /\ Len(trace) = 2
    /\ trace[1].stage = "up_1"
    /\ trace[2].stage = "up_0"

\* the quantiser attached to the stage of a given name, in a built network
StageVQ(name) ==
    IF name = "final" THEN net.output_vq
    ELSE IF name = "bottom" THEN net.bottom_layer.vq
    ELSE IF name = "upsamp" THEN net.upsample_out.vq
    ELSE IF \E i \in 1..Len(net.encoder) : net.encoder[i].name = name
    THEN net.encoder[CHOOSE i \in 1..Len(net.encoder) : net.encoder[i].name = name].vq
    ELSE net.decoder[CHOOSE i \in 1..Len(net.decoder) : net.decoder[i].name = name].vq

\* the names of the stages a configuration has
StagesOf(c) ==
    {"bottom", "final"} \cup {DownName(i) : i \in 0..(c.layers - 1)}
        \cup {UpName(i) : i \in 0..(c.layers - 1)}
        \cup (IF c.upsample_layer THEN {"upsamp"} ELSE {})

\* C7 (as claimed): construction with a vq_layers mapping of positive counts succeeds
\* (depths of at least 1), and every stage carries a quantiser exactly when the mapping
\* holds its name, with the count the mapping gives for that name.
C7_VQWiring ==
    (pc # "new" /\ ~cfg.vq_layers_none /\ cfg.layers >= 1 /\ cfg.layers <= DepthBound) =>
        /\ net.status = "built"
        /\ \A name \in StagesOf(cfg) :
              /\ StageVQ(name).present <=> name \in DOMAIN cfg.vq_layers
              /\ name \in DOMAIN cfg.vq_layers =>
                     StageVQ(name).num_embeddings = cfg.vq_layers[name]

\* encoder block down_i and decoder block up_i of a built network (the decoder list runs
\* from up_(L-1) down to up_0)
DownStage(i) == net.encoder[i + 1]
UpStage(i) == net.decoder[cfg.layers - i]

\* C11 (as claimed): in every constructed network with at least one layer, encoder stage
\* down_i is built with min(nc * 2^i, 512) channels, for each i in 0..layers-1.
C11_EncoderChannels ==
    (net.status = "built" /\ cfg.layers >= 1) =>
        \A i \in 0..(cfg.layers - 1) :
            DownStage(i).nc = Min(cfg.nc * Pow2(i), 512)

\* C12 (as claimed): in every constructed network, decoder block up_i is built with the
\* channel count, the stride tuple and the kernel shape of encoder block down_i, for every
\* stage i and every source_dims / target_dims pair.
C12_MirroredBlocks ==
    net.status = "built" =>
        \A i \in 0..(cfg.layers - 1) :
            /\ UpStage(i).nc = DownStage(i).nc
            /\ UpStage(i).strides = DownStage(i).strides
            /\ UpStage(i).weights = DownStage(i).weights

\* the schedule rule, stated on its own: the volume after i down-sampling steps, and the
\* stride and kernel the rule yields for a volume
RECURSIVE TrajectoryAt(_, _)
TrajectoryAt(dims, i) ==
    IF i = 0
    THEN dims
    ELSE LET d == TrajectoryAt(dims, i - 1)
         IN  IF d[1] \div 2 < 2
             THEN <<d[1] \div 2, d[2] \div 2, d[3] \div 2>>
             ELSE <<d[1], d[2] \div 2, d[3] \div 2>>
RuleStride(d) == IF d[1] \div 2 < 2 THEN <<2, 2, 2>> ELSE <<1, 2, 2>>
RuleKernel(d) == IF d[1] \div 2 < 2 THEN <<4, 4, 4>> ELSE <<2, 4, 4>>

\* C13: in every constructed network, encoder stage down_i carries the stride and the
\* kernel the schedule rule yields for the source volume after i down-sampling steps
\* (stride (2,2,2) and kernel (4,4,4), halving all axes, when the leading axis divided by
\* 2 is below 2; stride (1,2,2) and kernel (2,4,4), halving the trailing axes only,
\* otherwise), and the stride and kernel cached for stage i, which decoder stage up_i is
\* built with, are those the same rule yields for the target volume after i steps.
C13_StrideSchedule ==
    net.status = "built" =>
        \A i \in 0..(cfg.layers - 1) :
            /\ DownStage(i).strides = RuleStride(TrajectoryAt(cfg.source_dims, i))
            /\ DownStage(i).weights = RuleKernel(TrajectoryAt(cfg.source_dims, i))
            /\ UpStage(i).strides = RuleStride(TrajectoryAt(cfg.target_dims, i))
            /\ UpStage(i).weights = RuleKernel(TrajectoryAt(cfg.target_dims, i))

\* C13 witness: a two-stage network was built whose source volume takes the anisotropic
\* branch and whose target volume takes the isotropic branch
C13_Witness ==
    /\ net.status = "built"
    /\ cfg.layers = 2
    /\ DownStage(1).strides = <<1, 2, 2>>
    /\ DownStage(1).weights = <<2, 4, 4>>
    /\ UpStage(1).strides = <<2, 2, 2>>
    /\ UpStage(1).weights = <<4, 4, 4>>

\* C14: once the network is constructed, no step of any forward call changes the object:
\* the encoder and decoder block sequences, the bottleneck, the extra up-sampling block
\* and the quantiser attached (or not) to each stage, the output-level one included, are
\* after the step what they were before it, and so is the configuration; every call
\* starts with an empty list of skip tensors.
C14_GraphUnchanged ==
    [][pc # "new" =>
          /\ net' = net
          /\ cfg' = cfg
          /\ (pc # "encoder" /\ pc' = "encoder") => skip_layers' = <<>>]_vars

\* C14 witness: a forward call of a two-stage network with a quantiser at the output
\* level has returned
C14_Witness ==
    /\ pc = "returned"
    /\ net.status = "built"
    /\ Len(net.encoder) = 2
    /\ Len(net.decoder) = 2
    /\ net.output_vq.present

\* C14, the codebook (under SpecVQ): no call of a constructed VQBlock changes its
\* dictionary or its sizes
C14_CodebookUnchanged == [][vq.built => vq' = vq]_vars

(***************************************************************************)
(* Properties of the quantiser (checked under SpecVQ).                     *)
(***************************************************************************)
\* row r of the input, regrouped into rows of embedding_dim elements
InputRow(r) == [d \in 1..vq.embedding_dim |-> vq_x.data[(r - 1) * vq.embedding_dim + d]]

\* codebook entry k: column k of the dictionary
Entry(k) == [d \in 1..vq.embedding_dim |-> vq.dictionary[d][k]]

\* the squared Euclidean distance of two vectors, term by term
SqDist(a, b) == SumSeq([d \in 1..Len(a) |-> (a[d] - b[d]) * (a[d] - b[d])])

\* C8: for every row of the input, the index get_code_indices selected is the index of a
\* codebook entry at minimum squared Euclidean distance from the row, and every entry of
\* a lower index is strictly farther; with the 1-D codebook {-1, 1}, 0.6 selects index 1
\* (the entry 1), -0.9 selects index 0 (the entry -1) and 0.0 selects index 0.
C8_NearestLowestIndex ==
    vq_ret.kind = "value" =>
        /\ Len(vq_ret.code_idx) * vq.embedding_dim = Len(vq_x.data)
        /\ \A r \in 1..Len(vq_ret.code_idx) :
              LET idx == vq_ret.code_idx[r]
              IN  /\ idx \in 0..(vq.num_embeddings - 1)
                  /\ \A k \in 1..vq.num_embeddings :
                        SqDist(InputRow(r), Entry(idx + 1)) <= SqDist(InputRow(r), Entry(k))
                  /\ \A k \in 1..idx :
                        SqDist(InputRow(r), Entry(idx + 1)) < SqDist(InputRow(r), Entry(k))
        /\ vq.dictionary = <<(<<-100, 100>>)>> =>
              \A r \in 1..Len(vq_x.data) :
                  /\ vq_x.data[r] = 60 => vq_ret.code_idx[r] = 1
                  /\ vq_x.data[r] = -90 => vq_ret.code_idx[r] = 0
                  /\ vq_x.data[r] = 0 => vq_ret.code_idx[r] = 0

\* C8 witness: the 1-D codebook {-1, 1} was searched for 0.0, which is as far from -1 as
\* from 1, and for 0.6
C8_Witness ==
    /\ vq_ret.kind = "value"
    /\ vq.dictionary = <<(<<-100, 100>>)>>
    /\ vq_x.data = <<0, 60>>
    /\ vq_ret.code_idx = <<0, 1>>

\* C9: when embedding_dim > 1 and the last axis of x has size embedding_dim, the tensor
\* VQBlock.call returns has the shape of x, and at every position its feature vector
\* is, element for element, the codebook entry of the index selected for that position.
C9_OutputIsCodebookEntry ==
    (vq_ret.kind = "value" /\ vq.embedding_dim > 1 /\ vq_x.shape[2] = vq.embedding_dim) =>
        /\ vq_ret.shape = vq_x.shape
        /\ Len(vq_ret.data) = Len(vq_x.data)
        /\ Len(vq_ret.code_idx) = vq_x.shape[1]
        /\ \A r \in 1..vq_x.shape[1] : \A d \in 1..vq.embedding_dim :
              vq_ret.data[(r - 1) * vq.embedding_dim + d].v = Entry(vq_ret.code_idx[r] + 1)[d]

\* C9 witness: a call on two feature vectors of size 2 that selected two different
\* entries, neither of which equals the input vector
C9_Witness ==
    /\ vq_ret.kind = "value"
    /\ vq.embedding_dim = 2
    /\ vq_x.shape = <<2, 2>>
    /\ vq_ret.code_idx = <<0, 1>>
    /\ Entry(1) # Entry(2)
    /\ InputRow(1) # Entry(1)

\* perturbations, added to every element of x
EpsVals == {-10, 40}
Perturbed(eps) == [vq_x EXCEPT !.data = [i \in 1..Len(vq_x.data) |-> vq_x.data[i] + eps]]
\* C10 (as claimed): when x and x + eps select the same codebook indices, the forward
\* value returned for x + eps differs from the one returned for x by exactly eps.
C10_ForwardShiftsByEps ==
    vq_ret.kind = "value" =>
        \A eps \in EpsVals :
            LET shifted == VQForward(vq, Perturbed(eps))
            IN  shifted.code_idx = vq_ret.code_idx =>
                    \A i \in 1..Len(vq_x.data) : shifted.data[i].v - vq_ret.data[i].v = eps

\* C10 (amended): when x and x + eps select the same codebook indices, the forward value
\* returned for x + eps equals the one returned for x; it is the derivative of every
\* returned element with respect to its input element that is 1, whichever entry is
\* selected.
C10_StraightThrough ==
    vq_ret.kind = "value" =>
        /\ \A i \in 1..Len(vq_ret.data) : vq_ret.data[i].g = 1
        /\ \A eps \in EpsVals :
              LET shifted == VQForward(vq, Perturbed(eps))
              IN  shifted.code_idx = vq_ret.code_idx =>
                      \A i \in 1..Len(vq_x.data) : shifted.data[i].v = vq_ret.data[i].v

\* C10 witness: a call on a codebook of two different entries, where a perturbed input
\* selects the same index as the input
C10_Witness ==
    /\ vq_ret.kind = "value"
    /\ vq.num_embeddings = 2
    /\ Entry(1) # Entry(2)
    /\ \E eps \in EpsVals : VQForward(vq, Perturbed(eps)).code_idx = vq_ret.code_idx

\* C15: when embedding_dim = 1, the tensor VQBlock.call returns has the shape of x, one
\* index is selected per element, the index selected for an element is that of a codebook
\* scalar at minimum squared distance from the element (the scalars taken unscaled), and
\* the value returned for the element is 0.02 times the selected scalar.
C15_ScalarCodebookScaled ==
    (vq_ret.kind = "value" /\ vq.embedding_dim = 1) =>
        /\ vq_ret.shape = vq_x.shape
        /\ Len(vq_ret.data) = Len(vq_x.data)
        /\ Len(vq_ret.code_idx) = Len(vq_x.data)
        /\ \A i \in 1..Len(vq_x.data) :
              LET selected == vq.dictionary[1][vq_ret.code_idx[i] + 1]
              IN  /\ 100 * vq_ret.data[i].v = 2 * selected
                  /\ \A k \in 1..vq.num_embeddings :
                        (vq_x.data[i] - selected) * (vq_x.data[i] - selected)
                            <= (vq_x.data[i] - vq.dictionary[1][k])
                                   * (vq_x.data[i] - vq.dictionary[1][k])

\* C15 witness: the scalar codebook {-1, 1} was applied to 0.6 and -0.9 and returned 0.02
\* and -0.02
C15_Witness ==
    /\ vq_ret.kind = "value"
    /\ vq.embedding_dim = 1
    /\ vq.dictionary = <<(<<-100, 100>>)>>
    /\ vq_x.data = <<60, -90>>
    /\ vq_ret.data[1].v = 2
    /\ vq_ret.data[2].v = -2

\* the sum over all elements of the squared difference between x and the value returned
\* for it
SquaredError ==
    SumSeq([i \in 1..Len(vq_x.data) |->
               (vq_x.data[i] - vq_ret.data[i].v) * (vq_x.data[i] - vq_ret.data[i].v)])

\* C16: after every call that returns, exactly one loss value is registered, and it
\* equals (1 + beta) times the mean over all elements of the squared difference between
\* x and its quantised value; before the first call nothing is registered.  With beta
\* counted in hundredths and the loss kept as the fraction num / den, that is
\* num / den = ((100 + beta) / 100) * (squared error / number of elements).
C16_LossValue ==
    /\ vq_ret.kind = "none" => losses = <<>>
    /\ vq_ret.kind = "value" =>
          /\ Len(losses) = 1
          /\ losses[1].den = 100 * Len(vq_x.data)
          /\ losses[1].num = (100 + vq.beta) * SquaredError

\* C16 witness: a call with beta = 0.25 whose input differs from its quantised value has
\* registered one positive loss
C16_Witness ==
    /\ vq_ret.kind = "value"
    /\ vq.beta = 25
    /\ Len(losses) = 1
    /\ losses[1].num > 0
    /\ SquaredError > 0

\* C18 (as claimed): a VQBlock is never constructed with an embedding count or an
\* embedding dimension that is not positive: such a construction is rejected.
C18_NonPositiveRejected ==
    vq.built => (vq.num_embeddings > 0 /\ vq.embedding_dim > 0)

(***************************************************************************)
(* Properties of the convolutional blocks (checked under SpecBlock).       *)
(***************************************************************************)
\* the block was asked for a time-conditioned quantiser
TimeConditioned == blk_in.use_vq /\ blk_in.vq_config.vq_time

\* a channel holding t is expected in front of the first convolution
ChannelExpected == blk_in.has_t /\ ~TimeConditioned

\* the expression the first (transpose-)convolution is expected to receive
ExpectedInput ==
    IF ChannelExpected THEN <<"time_concat", "x", "time_tile", "t">> ELSE <<"x">>

\* the expression each block is expected to compute up to and including its last
\* normalisation
ExpectedBody ==
    IF blk_in.kind = "DownBlock" \/ blk_in.kind = "BottomBlock"
    THEN <<"instancenorm2", "block", "conv2", "block",
           "relu", "instancenorm1", "block", "conv1", "block">> \o ExpectedInput
    ELSE IF blk_in.kind = "UpBlock"
    THEN <<"instancenorm2", "block", "conv2", "block",
           "relu", "instancenorm1", "block", "conv1", "block", "concat",
           "relu", "instancenormt", "block", "tconv", "block">> \o ExpectedInput \o <<"skip">>
    ELSE <<"instancenorm2", "block", "conv", "block",
           "relu", "instancenorm1", "block", "tconv", "block">> \o ExpectedInput

\* C17: in each of the four blocks, a call that returns has fed its first
\* (transpose-)convolution the input with exactly one extra channel holding t when t is
\* given and the block has no quantiser or one that is not time-conditioned, and the
\* input unchanged otherwise (t given with a time-conditioned quantiser, or t absent);
\* the quantiser, if present, is applied to the output of the last normalisation and
\* followed by the final ReLU, with t as argument exactly when it is time-conditioned
\* (and t is given), and without t otherwise.
C17_TimeConditioning ==
    blk_ret.kind = "value" =>
        /\ blk_ret.x_in.ch = blk_in.x.ch + (IF ChannelExpected THEN 1 ELSE 0)
        /\ blk_ret.x_in.shape = blk_in.x.shape
        /\ blk_ret.x_in.val = ExpectedInput
        /\ ~blk_in.use_vq => blk_ret.x.val = <<"relu">> \o ExpectedBody
        /\ (blk_in.use_vq /\ ~TimeConditioned) =>
               blk_ret.x.val = <<"relu", "vq", "block">> \o ExpectedBody
        /\ (TimeConditioned /\ blk_in.has_t) =>
               blk_ret.x.val = <<"relu", "vq_t", "block">> \o ExpectedBody \o <<"t">>

\* C17 witness: an UpBlock with a quantiser that is not time-conditioned was called with
\* a time value and returned
C17_Witness ==
    /\ blk_ret.kind = "value"
    /\ blk.kind = "UpBlock"
    /\ blk_in.has_t
    /\ blk_in.use_vq
    /\ ~blk_in.vq_config.vq_time
    /\ blk_ret.x_in.ch = blk_in.x.ch + 1

====
